---------------------------- MODULE Spec2Model ----------------------------
(***************************************************************************)
(* Model of main.py: the MP4 -> MP3 batch converter.                       *)
(*                                                                         *)
(* A file name is a record [stem, ext] (ext "" when the name has no        *)
(* suffix), a path is the sequence of its parts.  The file system is the   *)
(* set of regular files and directories present before the first run plus  *)
(* the output files and the output directory the runs create.  The         *)
(* external tool (ffmpeg) is an opaque process: its exit code and what it  *)
(* leaves at the output path are chosen nondeterministically within what   *)
(* its overwrite-policy flag allows.                                       *)
(*                                                                         *)
(* Modelling assumptions: the file system is changed by the program and    *)
(* the tool only; -o, when given, names a path that is absent or a         *)
(* directory (an OSError out of mkdir, glob or subprocess.run other than   *)
(* FileNotFoundError is not modelled); every tool invocation returns.      *)
(***************************************************************************)
EXTENDS Integers, Sequences, FiniteSets, TLC

(* Bounds of the model *)
MaxRuns == 2
MaxCode == 2

(* Program constants *)
EXIT_NO_FFMPEG == 127
EXIT_NO_TARGET == 2
EXIT_NO_INPUTS == 1
EXIT_FAILURES == 1
EXIT_OK == 0
CODE_NOT_FOUND == 127
CODE_EXISTS == 1

---------------------------------------------------------------------------
(* Names and paths *)

Nm(s, e) == [stem |-> s, ext |-> e]

DirD == <<Nm("d", "")>>
DirS == <<Nm("d", ""), Nm("s", "")>>
DirO == <<Nm("o", "")>>
Missing == <<Nm("m", "")>>
NoDir == <<>>

F_a_mp4 == DirD \o <<Nm("a", "mp4")>>
F_a_MP4 == DirD \o <<Nm("a", "MP4")>>
F_b_txt == DirD \o <<Nm("b", "txt")>>
F_s_a_mp4 == DirS \o <<Nm("a", "mp4")>>
D_c_mp4 == DirD \o <<Nm("c", "mp4")>>

FileUniverse == {F_a_mp4, F_a_MP4, F_b_txt, F_s_a_mp4}
Targets == {DirD, F_a_mp4, F_a_MP4, F_b_txt, Missing}
Platforms == {"posix", "windows"}

(* str.lower() on the suffixes of the universe *)
Lower(e) == IF e = "MP4" THEN "mp4" ELSE e

(* Rank of a one-letter stem and of a suffix in Python's string order *)
StemRank(s) ==
  CASE s = "a" -> 1 [] s = "b" -> 2 [] s = "c" -> 3 [] s = "d" -> 4
    [] s = "m" -> 5 [] s = "o" -> 6 [] s = "s" -> 7 [] OTHER -> 8

ExtRank(e) ==
  CASE e = "" -> 0 [] e = "MP4" -> 1 [] e = "mp3" -> 2 [] e = "mp4" -> 3
    [] e = "txt" -> 4 [] OTHER -> 5

(* os.path.normcase of one path component *)
NormCase(n, platform) ==
  IF platform = "windows" THEN Nm(n.stem, Lower(n.ext)) ELSE n

NormPath(p, platform) == [i \in 1..Len(p) |-> NormCase(p[i], platform)]

NameLess(n1, n2) ==
  \/ StemRank(n1.stem) < StemRank(n2.stem)
  \/ StemRank(n1.stem) = StemRank(n2.stem) /\ ExtRank(n1.ext) < ExtRank(n2.ext)

(* list comparison of the normalised parts: PurePath.__lt__ *)
RECURSIVE PartsLess(_, _)
PartsLess(p, q) ==
  IF Len(q) = 0 THEN FALSE
  ELSE IF Len(p) = 0 THEN TRUE
  ELSE IF NameLess(p[1], q[1]) THEN TRUE
  ELSE IF NameLess(q[1], p[1]) THEN FALSE
  ELSE PartsLess(Tail(p), Tail(q))

PathLess(p, q, platform) == PartsLess(NormPath(p, platform), NormPath(q, platform))

RECURSIVE Sorted(_, _)
Sorted(S, platform) ==
  IF S = {} THEN <<>>
  ELSE LET m == CHOOSE x \in S : \A y \in S \ {x} : PathLess(x, y, platform)
       IN  <<m>> \o Sorted(S \ {m}, platform)

Parent(p) == SubSeq(p, 1, Len(p) - 1)
Name(p) == p[Len(p)]
Suffix(p) == Name(p).ext
WithSuffix(p, e) == Parent(p) \o <<Nm(Name(p).stem, e)>>
IsPrefix(d, p) == Len(d) < Len(p) /\ SubSeq(p, 1, Len(d)) = d

---------------------------------------------------------------------------
(* File system queries; e is the environment record *)

IsFile(e, p) == \E f \in e.files : NormPath(f, e.platform) = NormPath(p, e.platform)
IsDir(e, p) == \E d \in e.dirs : NormPath(d, e.platform) = NormPath(p, e.platform)
Exists(e, p) == IsFile(e, p) \/ IsDir(e, p)

(* fnmatch of a name against "*.mp4": case-sensitive on posix *)
MatchesMp4(n, platform) ==
  IF platform = "windows" THEN Lower(n.ext) = "mp4" ELSE n.ext = "mp4"

(* Path.glob: "*.mp4" selects children, "**/*.mp4" selects descendants *)
Glob(e, target, recursive) ==
  {p \in e.files \cup e.dirs :
     /\ IF recursive THEN IsPrefix(target, p) ELSE Len(p) > 0 /\ Parent(p) = target
     /\ MatchesMp4(Name(p), e.platform)}

find_mp4_files(e, target, recursive) ==
  IF IsFile(e, target)
  THEN IF Lower(Suffix(target)) = "mp4" THEN <<target>> ELSE <<>>
  ELSE Sorted({p \in Glob(e, target, recursive) : IsFile(e, p)}, e.platform)

OutputPath(input_path, output_dir) ==
  IF output_dir = NoDir
  THEN WithSuffix(input_path, "mp3")
  ELSE WithSuffix(output_dir \o <<Name(input_path)>>, "mp3")

OutPaths == {OutputPath(f, od) : f \in FileUniverse, od \in {NoDir, DirO}}


---------------------------------------------------------------------------
(* State *)

VARIABLES
  env,        \* platform, shutil.which result, files and directories on disk
  args,       \* parsed command line: input, output_dir, recursive, overwrite
  outputs,    \* output path -> what is stored there
  pc,         \* position in main
  run,        \* number of the current run of the program
  checked,    \* result of target.exists() once evaluated, "none" before
  inputs,     \* the discovered candidates
  idx,        \* number of candidates processed so far
  failures,   \* the failure counter of main
  invoked,    \* the source paths handed to the tool, in order of invocation
  tally,      \* outcomes classified so far in this run
  last,       \* the latest loop iteration; idx = 0 when there is none
  summary,    \* the final line printed; kind "none" until there is one
  exitCode,   \* process exit code, -1 while running
  odir,       \* TRUE when the directory DirO exists on disk
  prev        \* about the earlier runs: outputs and odir at the start of this
              \* run, exit code of the previous run, tool contract kept so far

cfgVars == <<env, args>>
loopVars == <<inputs, idx, failures, invoked, tally, last>>
vars == <<env, args, outputs, pc, run, checked, inputs, idx, failures,
          invoked, tally, last, summary, exitCode, odir, prev>>

Absent == [present |-> FALSE, src |-> <<>>, run |-> 0, complete |-> FALSE]
Preexisting == [present |-> TRUE, src |-> <<>>, run |-> 0, complete |-> TRUE]
Written(src, r, c) == [present |-> TRUE, src |-> src, run |-> r, complete |-> c]

NoLast ==
  [idx |-> 0, total |-> 0, src |-> <<>>, dst |-> <<>>, flag |-> "", found |-> TRUE,
   code |-> 0, existedBefore |-> FALSE, before |-> Absent, existsAfter |-> FALSE,
   outcome |-> ""]
NoSummary == [kind |-> "none", succeeded |-> 0, failed |-> 0, total |-> 0]
NoTally == [Success |-> 0, SkippedExisting |-> 0, Failed |-> 0]

ExitCodes == 0..MaxCode

(* dst.exists() for an output path *)
OutputExists(e, outs, p) == (p \in DOMAIN outs /\ outs[p].present) \/ Exists(e, p)

(* d/ always holds b.txt, the directory s/ and a directory named c.mp4; a
   case-insensitive file system holds no two names that differ by case *)
InitEnvs ==
  {e \in [platform : Platforms, which : BOOLEAN,
          files : {S \cup {F_b_txt} : S \in SUBSET (FileUniverse \ {F_b_txt})},
          dirs : {{DirD, DirS, D_c_mp4}}] :
     e.platform = "windows" => ~(F_a_mp4 \in e.files /\ F_a_MP4 \in e.files)}

InitArgs ==
  [input : Targets, output_dir : {NoDir, DirO}, recursive : BOOLEAN, overwrite : BOOLEAN]

(* An a.mp3 may be left from earlier use where this command line puts it;
   DirO exists when it holds one *)
InitOutputs(a) ==
  {[p \in OutPaths |-> IF p \in S THEN Preexisting ELSE Absent] :
     S \in SUBSET {OutputPath(F_a_mp4, a.output_dir)}}

Init ==
  /\ env \in InitEnvs
  /\ args \in InitArgs
  /\ outputs \in InitOutputs(args)
  /\ pc = "start"
  /\ run = 1
  /\ checked = "none"
  /\ inputs = <<>>
  /\ idx = 0
  /\ failures = 0
  /\ invoked = <<>>
  /\ tally = NoTally
  /\ last = NoLast
  /\ summary = NoSummary
  /\ exitCode = -1
  /\ odir = outputs[OutputPath(F_a_mp4, DirO)].present
  /\ prev = [outputs |-> outputs, odir |-> odir, exit |-> -1, kept |-> TRUE]


---------------------------------------------------------------------------
(* The external tool *)

(* line 80 of the command: the overwrite-policy flag *)
OverwriteFlag_AlwaysForce(overwrite) == "-y"
OverwriteFlag(overwrite) == IF overwrite THEN "-y" ELSE "-n"

(* What one invocation can do, given the policy flag and whether the output
   path exists: found = FALSE is FileNotFoundError out of subprocess.run;
   effect is what the tool leaves at the output path.  With "-n" the tool
   never touches an existing output.  A failing tool may leave a partial
   output behind. *)
ToolResults(flag, existedBefore) ==
  {[found |-> FALSE, code |-> 0, effect |-> "none"]}
  \cup
  (IF flag = "-n" /\ existedBefore
   THEN [found : {TRUE}, code : ExitCodes \ {0}, effect : {"none"}]
   ELSE {[found |-> TRUE, code |-> 0, effect |-> "full"]}
        \cup [found : {TRUE}, code : ExitCodes \ {0}, effect : {"none", "partial"}])

(* convert_one's return value *)
ReturnCode(r) == IF r.found THEN r.code ELSE CODE_NOT_FOUND

(* The output path after the invocation *)
AfterTool(before, src, r, effect) ==
  CASE effect = "full" -> Written(src, r, TRUE)
    [] effect = "partial" -> Written(src, r, FALSE)
    [] OTHER -> before

(* The branch main takes on a return code *)
Classify_IgnoreOverwrite(code, overwrite, dstExists) ==
  IF code = 0 THEN "Success"
  ELSE IF code = CODE_EXISTS /\ dstExists THEN "SkippedExisting"
  ELSE "Failed"
Classify(code, overwrite, dstExists) ==
  IF code = 0 THEN "Success"
  ELSE IF code = CODE_EXISTS /\ ~overwrite /\ dstExists THEN "SkippedExisting"
  ELSE "Failed"

(* line 36: shutil.which("ffmpeg") is None *)
FfmpegMissing_Unchecked(e) == FALSE
FfmpegMissing(e) == ~e.which

(* line 149: if not inputs *)
NothingFound_Unchecked(ins) == FALSE
NothingFound(ins) == ins = <<>>

(* line 156: the for loop is exhausted after the last candidate only *)
LoopDone_BreakOnFailure(i, total, nfail) == i = total \/ nfail > 0
LoopDone(i, total, nfail) == i = total

(* The exit code and the summary once the loop has ended *)
FinalExit_SeveralFailures(nfail) == IF nfail > 1 THEN EXIT_FAILURES ELSE EXIT_OK
FinalExit(nfail) == IF nfail # 0 THEN EXIT_FAILURES ELSE EXIT_OK

FinalSummary(total, nfail) ==
  IF nfail # 0
  THEN [kind |-> "failures", succeeded |-> total - nfail, failed |-> nfail, total |-> total]
  ELSE [kind |-> "success", succeeded |-> total, failed |-> 0, total |-> total]

(* The tool behaved as one that converts unless told "-n" on an existing
   output, which it refuses with CODE_EXISTS *)
KeptContract(flag, existedBefore, r) ==
  /\ r.found
  /\ IF flag = "-n" /\ existedBefore
     THEN r.code = CODE_EXISTS /\ r.effect = "none"
     ELSE r.code = 0 /\ r.effect = "full"

---------------------------------------------------------------------------
(* main, one step at a time *)

Exit(code, line) ==
  /\ pc' = "done"
  /\ exitCode' = code
  /\ summary' = line

(* line 141: ensure_ffmpeg_available *)
EnsureFfmpegAvailable ==
  /\ pc = "start"
  /\ IF FfmpegMissing(env)
     THEN Exit(EXIT_NO_FFMPEG,
               [kind |-> "no ffmpeg", succeeded |-> 0, failed |-> 0, total |-> 0])
     ELSE pc' = "exists" /\ UNCHANGED <<exitCode, summary>>
  /\ UNCHANGED <<cfgVars, loopVars, outputs, run, checked, odir, prev>>

(* lines 143-146: target.exists() *)
CheckTarget ==
  /\ pc = "exists"
  /\ checked' = IF Exists(env, args.input) THEN "exists" ELSE "missing"
  /\ IF ~Exists(env, args.input)
     THEN Exit(EXIT_NO_TARGET,
               [kind |-> "no target", succeeded |-> 0, failed |-> 0, total |-> 0])
     ELSE pc' = "discover" /\ UNCHANGED <<exitCode, summary>>
  /\ UNCHANGED <<cfgVars, loopVars, outputs, run, odir, prev>>

(* lines 148-154: discovery *)
Discover ==
  /\ pc = "discover"
  /\ inputs' = find_mp4_files(env, args.input, args.recursive)
  /\ IF NothingFound(inputs')
     THEN Exit(EXIT_NO_INPUTS,
               [kind |-> "no inputs", succeeded |-> 0, failed |-> 0, total |-> 0])
     ELSE pc' = "loop" /\ UNCHANGED <<exitCode, summary>>
  /\ UNCHANGED <<cfgVars, idx, failures, invoked, tally, last, outputs, run,
                 checked, odir, prev>>

(* lines 156-166: one iteration of the loop *)
ConvertNext ==
  /\ pc = "loop"
  /\ ~LoopDone(idx, Len(inputs), failures)
  /\ LET src == inputs[idx + 1]
         dst == OutputPath(src, args.output_dir)
         flag == OverwriteFlag(args.overwrite)
         before == outputs[dst]
         existed == OutputExists(env, outputs, dst)
     IN  \E r \in ToolResults(flag, existed) :
           LET code == ReturnCode(r)
               after == AfterTool(before, src, run, r.effect)
               outs == [outputs EXCEPT ![dst] = after]
               outcome == Classify(code, args.overwrite, OutputExists(env, outs, dst))
           IN  /\ odir' = (odir \/ args.output_dir = DirO)
               /\ outputs' = outs
               /\ invoked' = Append(invoked, src)
               /\ idx' = idx + 1
               /\ failures' = IF outcome = "Failed" THEN failures + 1 ELSE failures
               /\ tally' = [tally EXCEPT ![outcome] = @ + 1]
               /\ last' = [idx |-> idx + 1, total |-> Len(inputs), src |-> src,
                           dst |-> dst, flag |-> flag, found |-> r.found,
                           code |-> code, existedBefore |-> existed,
                           before |-> before,
                           existsAfter |-> OutputExists(env, outs, dst),
                           outcome |-> outcome]
               /\ prev' = [prev EXCEPT !.kept = @ /\ KeptContract(flag, existed, r)]
  /\ UNCHANGED <<cfgVars, inputs, pc, run, checked, summary, exitCode>>

(* lines 168-173: the summary and the return *)
Finish ==
  /\ pc = "loop"
  /\ LoopDone(idx, Len(inputs), failures)
  /\ Exit(FinalExit(failures), FinalSummary(Len(inputs), failures))
  /\ UNCHANGED <<cfgVars, loopVars, outputs, run, checked, odir, prev>>

(* The user runs the program again with the same command line *)
RunAgain ==
  /\ pc = "done"
  /\ run < MaxRuns
  /\ run' = run + 1
  /\ pc' = "start"
  /\ checked' = "none"
  /\ inputs' = <<>>
  /\ idx' = 0
  /\ failures' = 0
  /\ invoked' = <<>>
  /\ tally' = NoTally
  /\ last' = NoLast
  /\ summary' = NoSummary
  /\ exitCode' = -1
  /\ prev' = [prev EXCEPT !.outputs = outputs, !.odir = odir, !.exit = exitCode]
  /\ UNCHANGED <<cfgVars, outputs, odir>>

Next ==
  \/ EnsureFfmpegAvailable
  \/ CheckTarget
  \/ Discover
  \/ ConvertNext
  \/ Finish
  \/ RunAgain

Spec == Init /\ [][Next]_vars

(* Every step of main is taken once it is enabled: the interpreter runs on
   and every invocation returns.  Running again is the user's choice. *)
FairSpec ==
  /\ Spec
  /\ WF_vars(EnsureFfmpegAvailable)
  /\ WF_vars(CheckTarget)
  /\ WF_vars(Discover)
  /\ WF_vars(ConvertNext)
  /\ WF_vars(Finish)

TypeOK ==
  /\ pc \in {"start", "exists", "discover", "loop", "done"}
  /\ run \in 1..MaxRuns
  /\ idx \in 0..Len(inputs)
  /\ failures \in 0..idx
  /\ exitCode \in {-1, EXIT_OK, 1, EXIT_NO_TARGET, EXIT_NO_FFMPEG}

---------------------------------------------------------------------------
(* Properties *)

Returned == pc = "done"
Total == Len(inputs)

(* C1, safety part: the tool has been invoked for exactly the first idx
   candidates, once each and in discovery order, the progress line of the
   latest one carries [idx/total], and main returns from a batch only after
   the last candidate, with a final summary and exit code 0 or 1. *)
C1_InOrderOnce ==
  /\ invoked = SubSeq(inputs, 1, idx)
  /\ last.idx = idx
  /\ idx > 0 => last.total = Total /\ last.src = inputs[idx]
  /\ Returned /\ inputs # <<>> =>
       /\ invoked = inputs
       /\ summary.kind \in {"success", "failures"}
       /\ summary.total = Total
       /\ exitCode \in {EXIT_OK, EXIT_FAILURES}

(* C1: for every non-empty list of candidates and every sequence of
   outcomes, every candidate is invoked exactly once in order, no failure
   stops the loop early, and once the loop is entered main reaches the
   final summary and returns. *)
C1_EveryCandidateProcessed ==
  /\ []C1_InOrderOnce
  /\ (pc = "loop") ~> (Returned /\ invoked = inputs /\ exitCode \in {EXIT_OK, EXIT_FAILURES})

(* a batch of two that went on to its second candidate after the first
   one failed, and returned *)
C1_Witness ==
  /\ Returned /\ Total = 2 /\ invoked = inputs /\ exitCode = EXIT_FAILURES
  /\ tally.Failed = 1 /\ tally.Success = 1 /\ last.outcome = "Success"

(* C2: with at least one candidate, main returns 1 exactly when some
   candidate was Failed and 0 otherwise; the failure counter counts the
   Failed outcomes only, never a SkippedExisting one. *)
C2_ExitCodeIffFailed ==
  /\ failures = tally.Failed
  /\ tally.Success + tally.SkippedExisting + tally.Failed = idx
  /\ Returned /\ inputs # <<>> =>
       /\ exitCode = 1 <=> tally.Failed > 0
       /\ exitCode = 0 <=> tally.Failed = 0

(* a returned batch of successes and skips only, with exit code 0 *)
C2_Witness ==
  /\ Returned /\ exitCode = 0
  /\ tally.Success > 0 /\ tally.SkippedExisting > 0 /\ tally.Failed = 0

(* C3: the outcome is decided by the return code, the overwrite flag and
   the existence of the output after the invocation: 0 is Success; 1 without
   overwrite and with the output on disk is SkippedExisting; anything else,
   a missing tool binary (127) included, is Failed. *)
C3_OutcomeFunction ==
  last.idx > 0 =>
    /\ ~last.found => last.code = 127
    /\ last.outcome \in {"Success", "SkippedExisting", "Failed"}
    /\ last.outcome = "Success" <=> last.code = 0
    /\ last.outcome = "SkippedExisting" <=>
         (last.code = 1 /\ ~args.overwrite /\ last.existsAfter)
    /\ last.outcome = "Failed" <=>
         /\ last.code # 0
         /\ (last.code # 1 \/ args.overwrite \/ ~last.existsAfter)

(* return code 1 under overwrite with the output on disk: Failed *)
C3_Witness ==
  /\ last.idx > 0 /\ last.code = 1 /\ args.overwrite /\ last.existsAfter
  /\ last.outcome = "Failed"

(* C4: a candidate is skipped only if its output existed before the tool
   was invoked for it and overwrite was off; a nonzero return code with no
   output before the invocation is a failure and the run returns 1. *)
C4_SkipOnlyIfPreexisting ==
  /\ last.idx > 0 /\ last.outcome = "SkippedExisting" =>
       last.existedBefore /\ ~args.overwrite
  /\ last.idx > 0 /\ last.code # 0 /\ ~last.existedBefore =>
       /\ last.outcome = "Failed"
       /\ Returned => exitCode = 1

(* C5: with the tool missing from the search path the run ends with exit
   code 127 whatever the input is, and nothing else has happened: no
   existence check, no discovery, no directory creation, no invocation. *)
C5_AvailabilityFirst ==
  ~env.which =>
    /\ pc \in {"start", "done"}
    /\ Returned => exitCode = 127 /\ summary.kind = "no ffmpeg"
    /\ checked = "none"
    /\ inputs = <<>> /\ invoked = <<>>
    /\ odir = prev.odir /\ outputs = prev.outputs

(* exit code 127 on a nonexistent input with an output directory given *)
C5_Witness ==
  /\ ~env.which /\ Returned /\ exitCode = 127
  /\ ~Exists(env, args.input) /\ args.output_dir = DirO /\ ~odir

(* C6: with the tool available, a nonexistent input returns 2 and an
   existing input without candidates returns 1; in both cases no tool was
   invoked and no output directory created or output written. *)
C6_InputErrors ==
  env.which /\ Returned =>
    /\ ~Exists(env, args.input) =>
         exitCode = 2 /\ invoked = <<>> /\ odir = prev.odir /\ outputs = prev.outputs
    /\ Exists(env, args.input) /\ inputs = <<>> =>
         exitCode = 1 /\ invoked = <<>> /\ odir = prev.odir /\ outputs = prev.outputs

(* a single file of another extension, -o given: exit 1, no directory *)
C6_Witness ==
  /\ env.which /\ Returned /\ exitCode = 1
  /\ args.input = F_b_txt /\ args.output_dir = DirO /\ ~odir

(* C7: without overwrite and with a tool that converts a missing output
   and refuses an existing one with code 1, the first run returns 0 and a
   second run classifies every candidate SkippedExisting, counts no
   failure, changes no output file and returns 0. *)
C7_SecondRunSkipsAll ==
  (/\ prev.kept /\ ~args.overwrite /\ env.which
   /\ find_mp4_files(env, args.input, args.recursive) # <<>>) =>
    /\ Returned => exitCode = 0
    /\ run >= 2 =>
         /\ prev.exit = 0
         /\ outputs = prev.outputs
         /\ failures = 0 /\ tally.Failed = 0 /\ tally.Success = 0
         /\ tally.SkippedExisting = idx
         /\ Returned => tally.SkippedExisting = Total

(* a second run over two or more candidates, all skipped, after a first
   run that converted *)
C7_Witness ==
  /\ prev.kept /\ ~args.overwrite /\ run = 2 /\ Returned /\ exitCode = 0
  /\ Total >= 2 /\ tally.SkippedExisting = Total
  /\ \E p \in OutPaths : outputs[p].present /\ outputs[p].run = 1

(* The files discovery is meant to find: matching case-insensitively *)
Expected(e, target, recursive) ==
  IF IsFile(e, target)
  THEN IF Lower(Suffix(target)) = "mp4" THEN {target} ELSE {}
  ELSE {f \in e.files :
          /\ Lower(Suffix(f)) = "mp4"
          /\ Parent(f) = target \/ (recursive /\ IsPrefix(target, f))}

(* C8: discovery returns exactly the regular files whose extension is the
   supported one case-insensitively, the children of the directory, or all
   descendants when recursive, or the single file given, in order. *)
C8_DiscoveryCaseInsensitive ==
  pc \in {"loop", "done"} /\ checked = "exists" =>
    /\ {inputs[i] : i \in 1..Len(inputs)} = Expected(env, args.input, args.recursive)
    /\ Len(inputs) = Cardinality(Expected(env, args.input, args.recursive))
    /\ \A i \in 1..Len(inputs) - 1 : PathLess(inputs[i], inputs[i + 1], env.platform)

(* C9: in the summary of a batch with failures, the success count is the
   number of Success outcomes and the failure count the number of Failed
   ones; skipped candidates are in neither. *)
C9_SummaryCounts ==
  summary.kind = "failures" =>
    /\ summary.succeeded = tally.Success
    /\ summary.failed = tally.Failed

(* C10: two distinct candidates of one run never derive the same output
   path, so no candidate meets an output produced for another candidate of
   the same run. *)
C10_DistinctOutputs ==
  /\ \A i, j \in 1..Len(inputs) :
       i # j => OutputPath(inputs[i], args.output_dir) # OutputPath(inputs[j], args.output_dir)
  /\ last.idx > 0 /\ last.before.present =>
       ~(last.before.run = run /\ last.before.src # last.src)

=============================================================================
